---- MODULE Spec2Model ----
(***************************************************************************)
(* atomic-gen: a CLI that reads a YAML config of component names grouped   *)
(* in categories and generates a component file and a story file for each. *)
(* The model follows the latest revision of the CLI source                 *)
(* (src/unnamed/part_002, lines 294-634).                                  *)
(*                                                                         *)
(* Strings that are used as paths or glob patterns are represented by the  *)
(* sequence of their "/"-separated segments: "a/b" is <<"a","b">>, "a/" is *)
(* <<"a","">>, and the template string `${x}/${y}` is x \o y.              *)
(***************************************************************************)
EXTENDS Integers, Sequences, FiniteSets, TLC

(***************************************************************************)
(* Bounds of the model                                                     *)
(***************************************************************************)
MaxEntries == 2

\* longest metadata list of an entry
MaxMeta == 2

\* most arguments after the script on a command line
MaxArgs == 2

\* most characters of a typed answer
MaxAnswerLen == 3

(***************************************************************************)
(* Generic helpers                                                         *)
(***************************************************************************)
SeqsUpTo(S, n) == UNION { [1..k -> S] : k \in 0..n }

Range(s) == { s[i] : i \in DOMAIN s }

Last(s) == s[Len(s)]

Front(s) == SubSeq(s, 1, Len(s) - 1)

\* string concatenation s + t on segment sequences: the last segment of s
\* and the first segment of t are glued together
Concat(s, t) == Front(s) \o << Last(s) \o Head(t) >> \o Tail(t)

(***************************************************************************)
(* YAML values as produced by parse() of the yaml package                  *)
(***************************************************************************)
Str(s) == [t |-> "str", v |-> s]

Num(n) == [t |-> "num", v |-> n]

Null == [t |-> "null", v |-> "null"]

YSeq(items) == [t |-> "seq", v |-> items]

\* a mapping keeps its keys in document order: a sequence of <<key, value>>
YMap(pairs) == [t |-> "map", v |-> pairs]

\* the value of a property that is not there
Undefined == [t |-> "undefined", v |-> "undefined"]

(***************************************************************************)
(* Library functions of node:path and minimatch, on segment sequences      *)
(***************************************************************************)
RECURSIVE NormalizeFrom(_, _)
NormalizeFrom(acc, rest) ==
    IF rest = <<>> THEN acc
    ELSE LET s == Head(rest) IN
         IF s = "" \/ s = "." THEN NormalizeFrom(acc, Tail(rest))
         ELSE IF s = ".." /\ acc # <<>> /\ Last(acc) # ".."
              THEN NormalizeFrom(Front(acc), Tail(rest))
              ELSE NormalizeFrom(Append(acc, s), Tail(rest))

\* path.normalize(p): empty and "." segments are dropped, ".." removes the
\* segment before it; the leading empty segment of an absolute path stays
Normalize(p) ==
    IF p # <<>> /\ Head(p) = "" /\ Len(p) > 1
    THEN <<"">> \o NormalizeFrom(<<>>, Tail(p))
    ELSE NormalizeFrom(<<>>, p)

RECURSIVE CommonPrefixLen(_, _)
CommonPrefixLen(a, b) ==
    IF a = <<>> \/ b = <<>> \/ Head(a) # Head(b) THEN 0
    ELSE 1 + CommonPrefixLen(Tail(a), Tail(b))

\* path.relative(from, to): both resolved against the same working directory
Relative(from, to) ==
    LET f == Normalize(from)
        t == Normalize(to)
        k == CommonPrefixLen(f, t)
    IN  [i \in 1..(Len(f) - k) |-> ".."] \o SubSeq(t, k + 1, Len(t))

\* minimatch(path, pattern) for patterns whose segments are literals, "*"
\* (one segment) and "**" (any number of segments)
RECURSIVE GlobMatch(_, _)
GlobMatch(p, pat) ==
    IF pat = <<>> THEN p = <<>>
    ELSE IF Head(pat) = "**"
         THEN GlobMatch(p, Tail(pat))
              \/ (p # <<>> /\ GlobMatch(Tail(p), pat))
         ELSE /\ p # <<>>
              /\ (Head(pat) = "*" \/ Head(pat) = Head(p))
              /\ GlobMatch(Tail(p), Tail(pat))

minimatch(p, pattern) == GlobMatch(p, pattern)

(***************************************************************************)
(* JavaScript built-ins the config loader applies to parsed YAML values    *)
(***************************************************************************)
\* Object.entries(x) throws a TypeError on null and undefined
ObjectEntriesThrows(x) == x.t \in {"null", "undefined"}

\* Object.entries(x): the pairs of a mapping, the index/element pairs of a
\* sequence, nothing for a number or a boolean (a string would give one pair
\* per character; no input of the model puts a string here)
ObjectEntries(x) ==
    CASE x.t = "map" -> x.v
      [] x.t = "seq" -> [i \in 1..Len(x.v) |-> << <<ToString(i - 1)>>, x.v[i] >>]
      [] x.t \in {"num", "bool"} -> <<>>

\* x.forEach(...) exists on arrays only; anything else throws a TypeError
HasForEach(x) == x.t = "seq"

\* x[key] of a value that is not null or undefined
Property(x, key) ==
    IF x.t = "map" /\ \E i \in DOMAIN x.v : x.v[i][1] = key
    THEN x.v[CHOOSE i \in DOMAIN x.v : x.v[i][1] = key][2]
    ELSE Undefined

\* a set that keeps the value a key already has
MapSetKeepsFirst(m, k, val) ==
    IF \E i \in DOMAIN m : m[i][1] = k THEN m ELSE Append(m, <<k, val>>)

\* Map.prototype.set: an existing key keeps its place and gets the new value
MapSet(m, k, val) ==
    IF \E i \in DOMAIN m : m[i][1] = k
    THEN [i \in DOMAIN m |-> IF m[i][1] = k THEN <<k, val>> ELSE m[i]]
    ELSE Append(m, <<k, val>>)

RECURSIVE MapSetAll(_, _)
MapSetAll(m, pairs) ==
    IF pairs = <<>> THEN m
    ELSE MapSetAll(MapSet(m, pairs[1][1], pairs[1][2]), Tail(pairs))

(***************************************************************************)
(* class Component                                                         *)
(***************************************************************************)
\* the object built from a Map: one property per key
mapToObject(map) ==
    [k \in { map[i][1] : i \in DOMAIN map } |->
        map[CHOOSE i \in DOMAIN map : map[i][1] = k][2]]

\* a layout without the category directory (that of the first revision)
componentDirWithoutCategory(baseDir, categoryName, componentName) ==
    baseDir \o componentName \o <<"">>

componentDirOf(baseDir, categoryName, componentName) ==
    baseDir \o categoryName \o componentName \o <<"">>

componentPathOf(baseDir, categoryName, componentName) ==
    componentDirOf(baseDir, categoryName, componentName)
        \o Concat(componentName, <<".tsx">>)

storyPathOf(baseDir, categoryName, componentName) ==
    componentDirOf(baseDir, categoryName, componentName)
        \o Concat(componentName, <<".stories.tsx">>)

Component(baseDir, categoryName, componentName, meta) ==
    [ baseDir       |-> baseDir,
      categoryName  |-> categoryName,
      componentName |-> componentName,
      componentDir  |-> componentDirOf(baseDir, categoryName, componentName),
      componentPath |-> componentPathOf(baseDir, categoryName, componentName),
      storyPath     |-> storyPathOf(baseDir, categoryName, componentName),
      meta          |-> mapToObject(meta) ]

(***************************************************************************)
(* loadConfigFromFile, after the file has been found and parsed            *)
(***************************************************************************)
RECURSIVE MetadataFold(_, _)
MetadataFold(map, list) ==
    IF list = <<>> THEN map
    ELSE MetadataFold(MapSetAll(map, ObjectEntries(Head(list))), Tail(list))

rawMetadataListThrows(list) ==
    \/ ~HasForEach(list)
    \/ \E i \in DOMAIN list.v : ObjectEntriesThrows(list.v[i])

rawMetadataListToMap(list) == MetadataFold(<<>>, list.v)

\* what one entry of a category throws, if anything
EntryThrows(val) ==
    /\ val.t \in {"map", "seq", "null"}
    /\ \/ ObjectEntriesThrows(val)
       \/ \E i \in DOMAIN ObjectEntries(val) :
              rawMetadataListThrows(ObjectEntries(val)[i][2])

\* a loader that passes the name of a bare entry as the category and the
\* category as the name
EntryComponentsSwapped(baseDir, categoryName, val) ==
    IF val.t = "str"
    THEN << Component(baseDir, val.v, categoryName, <<>>) >>
    ELSE IF val.t \in {"map", "seq", "null"}
    THEN LET es == ObjectEntries(val) IN
         [i \in DOMAIN es |->
            Component(baseDir, categoryName, es[i][1],
                      rawMetadataListToMap(es[i][2]))]
    ELSE <<>>

\* the components one entry of a category pushes
EntryComponents(baseDir, categoryName, val) ==
    IF val.t = "str"
    THEN << Component(baseDir, categoryName, val.v, <<>>) >>
    ELSE IF val.t \in {"map", "seq", "null"}
    THEN LET es == ObjectEntries(val) IN
         [i \in DOMAIN es |->
            Component(baseDir, categoryName, es[i][1],
                      rawMetadataListToMap(es[i][2]))]
    ELSE <<>>

RECURSIVE Flatten(_)
Flatten(ss) == IF ss = <<>> THEN <<>> ELSE Head(ss) \o Flatten(Tail(ss))

CategoryThrows(values) ==
    \/ ~HasForEach(values)
    \/ \E i \in DOMAIN values.v : EntryThrows(values.v[i])

CategoryComponents(baseDir, categoryName, values) ==
    Flatten([i \in DOMAIN values.v |->
                EntryComponents(baseDir, categoryName, values.v[i])])

\* parsing throws a TypeError (an uncaught exception)
loadConfigThrows(yaml) ==
    \/ yaml.t \in {"null", "undefined"}
    \/ ObjectEntriesThrows(Property(yaml, <<"components">>))
    \/ LET cats == ObjectEntries(Property(yaml, <<"components">>)) IN
       \E i \in DOMAIN cats : CategoryThrows(cats[i][2])

\* the Config returned when nothing throws
loadConfig(yaml, baseDir) ==
    LET cats == ObjectEntries(Property(yaml, <<"components">>)) IN
    [ components |-> Flatten([i \in DOMAIN cats |->
                        CategoryComponents(baseDir, cats[i][1], cats[i][2])]),
      excludes   |-> Property(yaml, <<"excludes">>) ]

(***************************************************************************)
(* Text: a file's content is a sequence of tokens.  A text token carries a *)
(* chunk of characters; a tag token is a {{name}} or {{meta.key}} tag of a *)
(* Mustache template.                                                      *)
(***************************************************************************)
Text(chunk) == [k |-> "text", s |-> <<chunk>>]

Tag(name) == [k |-> "tag", s |-> <<name>>]

MetaTag(key) == [k |-> "meta", s |-> <<key>>]

Whitespace == { Text(" "), Text("\n"), Text("\t") }

RECURSIVE TrimStart(_)
TrimStart(txt) ==
    IF txt # <<>> /\ Head(txt) \in Whitespace THEN TrimStart(Tail(txt)) ELSE txt

RECURSIVE TrimEnd(_)
TrimEnd(txt) ==
    IF txt # <<>> /\ Last(txt) \in Whitespace THEN TrimEnd(Front(txt)) ELSE txt

\* String.prototype.trim
Trim(txt) == TrimEnd(TrimStart(txt))

\* the text of a string value inside {{ }}: Mustache escapes "/" as &#x2F;
RECURSIVE Escaped(_)
Escaped(str) ==
    IF str = <<>> THEN <<>>
    ELSE (IF Head(str) = "" THEN <<>> ELSE << Text(Head(str)) >>)
         \o (IF Tail(str) = <<>> THEN <<>> ELSE << Text("&#x2F;") >>)
         \o Escaped(Tail(str))

\* what a tag renders to for a component; a name that is not there renders
\* as the empty string
RenderToken(tok, component) ==
    IF tok.k = "text" THEN << tok >>
    ELSE IF tok.k = "tag"
    THEN IF tok.s[1] \in DOMAIN component /\ tok.s[1] # "meta"
         THEN Escaped(component[tok.s[1]])
         ELSE <<>>
    ELSE IF tok.s \in DOMAIN component.meta
              /\ component.meta[tok.s].t \in {"str", "num"}
         THEN Escaped(component.meta[tok.s].v)
         ELSE <<>>

\* Mustache.render(template, component)
Render(template, component) ==
    Flatten([i \in DOMAIN template |-> RenderToken(template[i], component)])

\* a createFile that writes the rendered text as it is (the first revision)
FileContentUntrimmed(template, component) == Render(template, component)

\* the content createFile writes
FileContent(template, component) ==
    Trim(Render(template, component)) \o << Text("\n") >>

(***************************************************************************)
(* Command line                                                            *)
(***************************************************************************)
\* An argument "--name=value": dd says it starts with "--", name is what
\* follows the dashes (the whole word when there are none) and vals are the
\* strings after each "="
Opt(name) == [dd |-> TRUE, name |-> name, vals |-> <<>>]

OptVal(name, val) == [dd |-> TRUE, name |-> name, vals |-> <<val>>]

Word(name) == [dd |-> FALSE, name |-> name, vals |-> <<>>]

\* const [key, value] = option.split('=')
ArgValue(arg) == IF arg.vals = <<>> THEN Undefined ELSE Str(arg.vals[1])

RECURSIVE parseArgsFrom(_, _)
parseArgsFrom(map, args) ==
    IF args = <<>> THEN map
    ELSE LET a == Head(args) IN
         parseArgsFrom(IF a.dd /\ a.name # ""
                       THEN MapSet(map, a.name, ArgValue(a))
                       ELSE map,
                       Tail(args))

\* CommandLineOptions.parseArgs
parseArgs(args) == parseArgsFrom(<<>>, args)

\* a hasKey that takes a key given as "=false" as not given
hasKeyUnlessFalse(map, key) ==
    \E i \in DOMAIN map : map[i][1] = key /\ map[i][2] # Str(<<"false">>)

\* CommandLineOptions.hasKey
hasKey(map, key) == \E i \in DOMAIN map : map[i][1] = key

\* CommandLineOptions.get
get(map, key) ==
    IF hasKey(map, key)
    THEN map[CHOOSE i \in DOMAIN map : map[i][1] = key][2]
    ELSE Undefined

AllowedKeys == {"config", "base-dir", "force", "component-template", "story-template"}

\* a validate that lets every key pass
unknownKeysIgnored(map) == {}

\* CommandLineOptions.validate finds unknown keys
unknownKeys(map) == { map[i][1] : i \in DOMAIN map } \ AllowedKeys

\* a selection that runs generate whatever the command line names
commandNameAlwaysGenerate(args, map) == "generate"

\* the command main selects
commandNameOf(args, map) ==
    IF hasKey(map, "help") THEN "help"
    ELSE LET rest == SubSeq(args, 3, Len(args))
             words == SelectSeq(rest, LAMBDA a : ~a.dd /\ a.name # "")
         IN  IF words = <<>> THEN "generate"
             ELSE IF words[1].vals = <<>> THEN words[1].name
             ELSE words[1].name \o "="

\* x || dflt for an option value: undefined and the empty string are falsy
OrDefault(x, dflt) == IF x.t = "undefined" \/ x.v = <<"">> THEN dflt ELSE x.v

DEFAULT_BASE_DIR == <<"src", "components">>

DEFAULT_COMPONENT_TMPL_PATH == <<"", "pkg", "templates", "component.tsx.mustache">>

DEFAULT_STORY_TMPL_PATH == <<"", "pkg", "templates", "component.stories.ts.mustache">>

(***************************************************************************)
(* State                                                                   *)
(***************************************************************************)
VARIABLES
    args,           \* process.argv
    before,         \* the directories and files on disk when the run started
    configs,        \* the YAML files on disk: path -> parsed document
    dirs,           \* the directories on disk
    files,          \* the other files on disk: path -> content
    answers,        \* the lines read from the terminal so far
    pc,             \* where the process is
    options,        \* CommandLineOptions.optionMap
    baseDir,        \* execute: baseDir
    config,         \* execute: config
    isForce,        \* execute: isForce
    newComponents,  \* execute: newComponents
    k,              \* execute: number of candidate paths the plan loop has done
    templates,      \* execute: componentTemplate and storyTemplate
    g,              \* execute: number of newComponents entries generated
    stdout,         \* what console.log and the prompt have printed
    stderr,         \* what console.error and the runtime have printed
    exitCode,       \* the exit status, -1 while running
    fsLog           \* the file system calls made so far, in order

vars == << args, before, configs, dirs, files, answers, pc, options, baseDir, config,
           isForce, newComponents, k, templates, g, stdout, stderr, exitCode,
           fsLog >>

fsVars == << configs, dirs, files >>

localVars == << options, baseDir, config, isForce, newComponents, k, templates, g >>

(***************************************************************************)
(* File system calls                                                       *)
(***************************************************************************)
\* fs.existsSync(p)
existsSync(p) == Normalize(p) \in dirs \/ Normalize(p) \in DOMAIN files

\* the directories fs.mkdirSync(p, {recursive: true}) makes sure of
Prefixes(p) == { SubSeq(p, 1, n) : n \in 1..Len(p) } \ { <<"">> }

mkdirSync(ds, p) == ds \cup Prefixes(Normalize(p))

\* a write that adds to the end of a file that is there
writeFileSyncAppending(fls, p, content) ==
    [q \in DOMAIN fls \cup {Normalize(p)} |->
        IF q # Normalize(p) THEN fls[q]
        ELSE IF q \in DOMAIN fls THEN fls[q] \o content ELSE content]

\* fs.writeFileSync(p, content)
writeFileSync(fls, p, content) ==
    [q \in DOMAIN fls \cup {Normalize(p)} |->
        IF q = Normalize(p) THEN content ELSE fls[q]]

(***************************************************************************)
(* Output                                                                  *)
(***************************************************************************)
\* a line about one candidate path: "create: p", "skip: p", ...
PathLine(kind, p) == [kind |-> kind, path |-> p, n |-> 0]

\* any other message
Line(kind) == [kind |-> kind, path |-> <<>>, n |-> 0]

\* "This action will create n new files. Do you want to proceed?"
PromptLine(n) == [kind |-> "prompt", path |-> <<>>, n |-> n]

FsCall(op, p) == [op |-> op, path |-> Normalize(p)]

\* process.exit(code), or the end of the run
Exit(code) == pc' = "exited" /\ exitCode' = code

\* handleError(message): console.error and process.exit(1)
handleError(message) == stderr' = Append(stderr, message) /\ Exit(1)

\* an exception nothing catches ends the process with status 1
Uncaught(error) == stderr' = Append(stderr, error) /\ Exit(1)

(***************************************************************************)
(* main                                                                    *)
(***************************************************************************)
Main ==
    /\ pc = "main"
    /\ options' = parseArgs(args)
    /\ IF unknownKeys(options') # {}
       THEN handleError("Unknown options provided") /\ UNCHANGED stdout
       ELSE LET commandName == commandNameOf(args, options') IN
            CASE commandName = "generate" ->
                    pc' = "execute" /\ UNCHANGED << stdout, stderr, exitCode >>
              [] commandName = "help" ->
                    /\ stdout' = Append(stdout, Line("usage"))
                    /\ Exit(0)
                    /\ UNCHANGED stderr
              [] OTHER ->
                    handleError("Unknown command") /\ UNCHANGED stdout
    /\ UNCHANGED << args, before, fsVars, answers, baseDir, config, isForce,
                    newComponents, k, templates, g, fsLog >>

(***************************************************************************)
(* GenerateCommand.execute up to the plan loop                             *)
(***************************************************************************)
\* dirsAfter is the set of directories on disk when this part is done: it is
\* `dirs` here, where nothing is created; the first revision of the command
\* (src/index.ts) created the base directory at this point
ExecuteWith(dirsAfter) ==
    /\ pc = "execute"
    /\ dirs' = dirsAfter
    /\ LET configPath == get(options, "config")
           dir == OrDefault(get(options, "base-dir"), DEFAULT_BASE_DIR)
       IN
       IF configPath.t = "undefined"
       THEN /\ handleError("Input config path. --config={path}")
            /\ UNCHANGED << baseDir, config, isForce, k, fsLog >>
       ELSE IF Normalize(configPath.v) \notin DOMAIN configs
       THEN /\ handleError("Configuration file not found")
            /\ fsLog' = Append(fsLog, FsCall("existsSync", configPath.v))
            /\ baseDir' = dir
            /\ UNCHANGED << config, isForce, k >>
       ELSE LET yaml == configs[Normalize(configPath.v)] IN
            /\ fsLog' = fsLog \o << FsCall("existsSync", configPath.v),
                                   FsCall("readFileSync", configPath.v) >>
            /\ baseDir' = dir
            /\ IF loadConfigThrows(yaml)
               THEN /\ Uncaught("TypeError")
                    /\ UNCHANGED << config, isForce, k >>
               ELSE /\ config' = loadConfig(yaml, dir)
                    /\ isForce' = hasKey(options, "force")
                    /\ k' = 0
                    /\ pc' = "plan"
                    /\ UNCHANGED << stderr, exitCode >>
    /\ UNCHANGED << args, before, configs, files, answers, options,
                    newComponents, templates, g, stdout >>

\* the order of the first revision: the base directory is created before
\* the plan is made
ExecuteCreatingBaseDir ==
    ExecuteWith(mkdirSync(dirs, OrDefault(get(options, "base-dir"), DEFAULT_BASE_DIR)))

Execute == ExecuteWith(dirs)

(***************************************************************************)
(* GenerateCommand.execute: the plan loop                                  *)
(***************************************************************************)
\* JavaScript truthiness of a parsed value
Truthy(x) ==
    ~ \/ x.t \in {"undefined", "null"}
      \/ x.t = "str" /\ x.v = <<"">>
      \/ x.t = "num" /\ x.v = <<"0">>
      \/ x.t = "bool" /\ x.v = <<"false">>

\* a test that looks at the first pattern only
SomeMatchFirstOnly(relativePath, patterns) ==
    IF patterns = <<>> THEN "clear"
    ELSE IF Head(patterns).t # "str" THEN "throw"
    ELSE IF minimatch(relativePath, Head(patterns).v) THEN "excluded"
    ELSE "clear"

\* excludes.some((pattern) => minimatch(relativePath, pattern)): patterns are
\* tried in order; one that is not a string makes minimatch throw
RECURSIVE SomeMatch(_, _)
SomeMatch(relativePath, patterns) ==
    IF patterns = <<>> THEN "clear"
    ELSE IF Head(patterns).t # "str" THEN "throw"
    ELSE IF minimatch(relativePath, Head(patterns).v) THEN "excluded"
    ELSE SomeMatch(relativePath, Tail(patterns))

\* the test config.excludes && config.excludes.some(...)
ExcludeTest(excludes, relativePath) ==
    IF ~Truthy(excludes) THEN "clear"
    ELSE IF excludes.t # "seq" THEN "throw"
    ELSE SomeMatch(relativePath, excludes.v)

\* a plan loop that visits the stories file of a component before its
\* component file
CandidatePathsStoryFirst(components) ==
    [i \in 1..(2 * Len(components)) |->
        IF i % 2 = 1 THEN components[(i + 1) \div 2].storyPath
                     ELSE components[(i + 1) \div 2].componentPath]

\* the candidate paths in the order the plan loop visits them
CandidatePaths(components) ==
    [i \in 1..(2 * Len(components)) |->
        IF i % 2 = 1 THEN components[(i + 1) \div 2].componentPath
                     ELSE components[(i + 1) \div 2].storyPath]

\* a decision that overwrites an existing file whether or not force is on
DispositionAlwaysOverwrites(exists, force) ==
    IF exists THEN "overwrite" ELSE "create"

\* what the plan loop decides for a path that is not excluded
Disposition(exists, force) ==
    IF exists THEN (IF force THEN "overwrite" ELSE "skip") ELSE "create"

\* one turn of paths.forEach; dirsAfter is the set of directories on disk
\* when the turn is done: it is `dirs` here, the loop creates nothing
PlanStepWith(dirsAfter) ==
    /\ pc = "plan"
    /\ k < 2 * Len(config.components)
    /\ dirs' = dirsAfter
    /\ LET component == config.components[(k \div 2) + 1]
           normalizedPath == Normalize(CandidatePaths(config.components)[k + 1])
           relativePath == Relative(baseDir, normalizedPath)
           test == ExcludeTest(config.excludes, relativePath)
           disposition == Disposition(existsSync(normalizedPath), isForce)
       IN
       CASE test = "throw" ->
               /\ Uncaught("TypeError")
               /\ UNCHANGED << newComponents, k, stdout, fsLog >>
         [] test = "excluded" ->
               /\ stdout' = Append(stdout, PathLine("excluded", normalizedPath))
               /\ k' = k + 1
               /\ UNCHANGED << newComponents, stderr, exitCode, pc, fsLog >>
         [] test = "clear" ->
               /\ fsLog' = Append(fsLog, FsCall("existsSync", normalizedPath))
               /\ stdout' = Append(stdout, PathLine(disposition, normalizedPath))
               /\ newComponents' = IF disposition = "skip" THEN newComponents
                                   ELSE Append(newComponents, component)
               /\ k' = k + 1
               /\ UNCHANGED << stderr, exitCode, pc >>
    /\ UNCHANGED << args, before, configs, files, answers, options, baseDir, config,
                    isForce, templates, g >>

\* a plan loop that makes the directory of the component it looks at
PlanStepMakingDirs ==
    PlanStepWith(mkdirSync(dirs, config.components[(k \div 2) + 1].componentDir))

PlanStep == PlanStepWith(dirs)

\* the dispositions of the plan loop as a function of what it reads: the
\* components, the exclusion list, the base directory, the paths that
\* exist and the force flag
PlanDispositions(components, excludes, base, present, force) ==
    [i \in 1..(2 * Len(components)) |->
        LET normalizedPath == Normalize(CandidatePaths(components)[i])
            test == ExcludeTest(excludes, Relative(base, normalizedPath))
        IN  IF test = "clear"
            THEN Disposition(normalizedPath \in present, force)
            ELSE test]

\* a plan end that puts the question whatever the plan holds
PlanEndAlwaysAsks ==
    /\ pc = "plan"
    /\ k = 2 * Len(config.components)
    /\ stdout' = Append(stdout, PromptLine(Len(newComponents)))
    /\ pc' = "prompt"
    /\ UNCHANGED << args, before, fsVars, answers, localVars, stderr, exitCode, fsLog >>

\* after the loop: nothing to create, or the question is put
PlanEnd ==
    /\ pc = "plan"
    /\ k = 2 * Len(config.components)
    /\ IF newComponents = <<>>
       THEN /\ stdout' = Append(stdout, Line("No files to create"))
            /\ Exit(0)
       ELSE /\ stdout' = Append(stdout, PromptLine(Len(newComponents)))
            /\ pc' = "prompt"
            /\ UNCHANGED exitCode
    /\ UNCHANGED << args, before, fsVars, answers, localVars, stderr, fsLog >>

(***************************************************************************)
(* askYesNo                                                                *)
(***************************************************************************)
LowerChar(c) ==
    CASE c = "Y" -> "y" [] c = "E" -> "e" [] c = "S" -> "s" [] c = "N" -> "n"
      [] OTHER -> c

\* String.prototype.toLowerCase
ToLowerCase(txt) == [i \in DOMAIN txt |-> Text(LowerChar(txt[i].s[1]))]

\* an answer test that takes every answer starting with "y" for a yes
isYesAnswerByFirstLetter(answer) ==
    /\ Trim(answer) # <<>>
    /\ Head(ToLowerCase(Trim(answer))) = Text("y")

\* an answer test that does not trim
isYesAnswerUntrimmed(answer) == ToLowerCase(answer) = << Text("y") >>

isYesAnswer(answer) == ToLowerCase(Trim(answer)) = << Text("y") >>

\* the answers a user may type
Answers ==
    { << Text("y") >>,
      << Text(" "), Text("Y"), Text(" ") >>,
      << Text("y"), Text("e"), Text("s") >>,
      << Text("n") >>,
      << >> }

(***************************************************************************)
(* GenerateCommand.execute after the question                              *)
(***************************************************************************)
\* the answer arrives: await askYesNo(...) resumes
AnswerFrom(typed) ==
    /\ pc = "prompt"
    /\ \E answer \in typed :
        /\ answers' = Append(answers, answer)
        /\ IF isYesAnswer(answer)
           THEN pc' = "mkbase" /\ UNCHANGED << stdout, exitCode >>
           ELSE stdout' = Append(stdout, Line("File creation canceled.")) /\ Exit(0)
    /\ UNCHANGED << args, before, fsVars, localVars, stderr, fsLog >>

Answer == AnswerFrom(Answers)

\* if (!fs.existsSync(baseDir)) fs.mkdirSync(baseDir, {recursive: true})
MkBaseDir ==
    /\ pc = "mkbase"
    /\ IF existsSync(baseDir)
       THEN /\ fsLog' = Append(fsLog, FsCall("existsSync", baseDir))
            /\ UNCHANGED << dirs, stdout >>
       ELSE /\ dirs' = mkdirSync(dirs, baseDir)
            /\ fsLog' = fsLog \o << FsCall("existsSync", baseDir),
                                   FsCall("mkdirSync", baseDir) >>
            /\ stdout' = Append(stdout, Line("Directory created successfully."))
    /\ pc' = "templates"
    /\ UNCHANGED << args, before, configs, files, answers, localVars, stderr, exitCode >>

\* the two readFile calls; a missing template file throws ENOENT
ReadTemplates ==
    /\ pc = "templates"
    /\ LET cpath == OrDefault(get(options, "component-template"),
                              DEFAULT_COMPONENT_TMPL_PATH)
           spath == OrDefault(get(options, "story-template"),
                              DEFAULT_STORY_TMPL_PATH)
       IN
       IF Normalize(cpath) \notin DOMAIN files
       THEN /\ Uncaught("ENOENT")
            /\ fsLog' = Append(fsLog, FsCall("readFileSync", cpath))
            /\ UNCHANGED << templates, g >>
       ELSE IF Normalize(spath) \notin DOMAIN files
       THEN /\ Uncaught("ENOENT")
            /\ fsLog' = fsLog \o << FsCall("readFileSync", cpath),
                                   FsCall("readFileSync", spath) >>
            /\ UNCHANGED << templates, g >>
       ELSE /\ templates' = [ componentTemplate |-> files[Normalize(cpath)],
                              storyTemplate     |-> files[Normalize(spath)] ]
            /\ fsLog' = fsLog \o << FsCall("readFileSync", cpath),
                                   FsCall("readFileSync", spath) >>
            /\ g' = 0
            /\ pc' = "generate"
            /\ UNCHANGED << stderr, exitCode >>
    /\ UNCHANGED << args, before, fsVars, answers, options, baseDir, config, isForce,
                    newComponents, k, stdout >>

\* ComponentFileGenerator.createFile
createFile(fls, filePath, template, data) ==
    writeFileSync(fls, filePath, FileContent(template, data))

\* a generate that renders each file with the other file's template
generateSwapped(fls, component, componentTemplate, storyTemplate) ==
    createFile(createFile(fls, component.componentPath, storyTemplate, component),
               component.storyPath, componentTemplate, component)

\* a generate that leaves the stories file out
generateComponentOnly(fls, component, componentTemplate, storyTemplate) ==
    createFile(fls, component.componentPath, componentTemplate, component)

\* the files after ComponentFileGenerator.generate(component)
generate(fls, component, componentTemplate, storyTemplate) ==
    createFile(createFile(fls, component.componentPath, componentTemplate, component),
               component.storyPath, storyTemplate, component)

\* one turn of newComponents.forEach: the directory, then the component
\* file, then the story file
Generate ==
    /\ pc = "generate"
    /\ g < Len(newComponents)
    /\ LET component == newComponents[g + 1]
           there == existsSync(component.componentDir)
       IN
       /\ dirs' = IF there THEN dirs ELSE mkdirSync(dirs, component.componentDir)
       /\ files' = generate(files, component, templates.componentTemplate,
                             templates.storyTemplate)
       /\ fsLog' = fsLog
                   \o << FsCall("existsSync", component.componentDir) >>
                   \o (IF there THEN <<>>
                       ELSE << FsCall("mkdirSync", component.componentDir) >>)
                   \o << FsCall("writeFileSync", component.componentPath),
                         FsCall("writeFileSync", component.storyPath) >>
    /\ g' = g + 1
    /\ UNCHANGED << args, before, configs, answers, pc, options, baseDir, config,
                    isForce, newComponents, k, templates, stdout, stderr,
                    exitCode >>

\* after newComponents.forEach
GenerateEnd ==
    /\ pc = "generate"
    /\ g = Len(newComponents)
    /\ stdout' = Append(stdout, Line("All files were created successfully."))
    /\ Exit(0)
    /\ UNCHANGED << args, before, fsVars, answers, localVars, stderr, fsLog >>

(***************************************************************************)
(* The inputs of a run                                                     *)
(***************************************************************************)
Node == Word("node")

Script == Word("atomic-gen")

ConfigPath == <<"atomic.yaml">>

ConfigArg == OptVal("config", ConfigPath)

\* command lines that run the generate command on the config file
GenerateArgs ==
    { << Node, Script, ConfigArg >>,
      << Node, Script, ConfigArg, Opt("force") >>,
      << Node, Script, Word("generate"), OptVal("base-dir", <<"out">>), ConfigArg >> }

\* a path at which there is no file
MissingPath == << "missing.yaml" >>

\* command lines that end before the config is read
OtherArgs ==
    { << Node, Script, Word("help") >>,
      << Node, Script, Word("delete"), ConfigArg >>,
      << Node, Script, ConfigArg, Opt("verbose") >>,
      << Node, Script, Opt("force") >>,
      << Node, Script, Opt("help") >>,
      << Node, Script, Word("generate"), Opt("config") >>,
      << Node, Script, OptVal("config", MissingPath) >> }

Names == { <<"Button">>, <<"Input">> }

BareEntries == { Str(n) : n \in Names }

Atoms == <<"atoms">>

Molecules == <<"molecules">>

\* the `components` mapping: one or two categories of bare names
ComponentsMaps ==
    { YMap(<< <<Atoms, YSeq(a)>> >>) : a \in SeqsUpTo(BareEntries, MaxEntries) }
    \cup
    { YMap(<< <<Atoms, YSeq(e[1])>>, <<Molecules, YSeq(e[2])>> >>) :
        e \in { x \in SeqsUpTo(BareEntries, MaxEntries)
                      \X SeqsUpTo(BareEntries, MaxEntries) :
                  /\ x[1] # <<>>
                  /\ x[2] # <<>>
                  /\ Len(x[1]) + Len(x[2]) <= MaxEntries } }

\* the `excludes` list, or none
ExcludesChoices ==
    { Undefined,
      YSeq(<< Str(<<"**", "Input.stories.tsx">>) >>),
      YSeq(<< Str(<<"atoms", "Button", "Button.tsx">>) >>),
      YSeq(<< Str(<<"molecules", "**">>), Str(<<"*", "Button", "*">>) >>) }

Document(components, excludes) ==
    YMap(<< << <<"components">>, components >> >>
         \o (IF excludes = Undefined THEN <<>>
             ELSE << << <<"excludes">>, excludes >> >>))

ButtonWithMeta ==
    YMap(<< << <<"Button">>,
               YSeq(<< YMap(<< << <<"color">>, Str(<<"blue">>) >> >>),
                       YMap(<< << <<"size">>, Str(<<"large">>) >> >>),
                       YMap(<< << <<"color">>, Str(<<"red">>) >> >>) >>) >> >>)

\* documents with other shapes: entries that are not bare names, the
\* categories at the top level, a sequence, a scalar, an empty document
OtherDocuments ==
    { Document(YMap(<< <<Atoms, YSeq(<< ButtonWithMeta, Str(<<"Input">>) >>)>> >>),
               Undefined),
      Document(YMap(<< <<Atoms, YSeq(<< ButtonWithMeta, Str(<<"Button">>) >>)>> >>),
               Undefined),
      Document(YMap(<< <<Atoms, YSeq(<< Num(<<"1">>), Str(<<"Input">>) >>)>> >>),
               Undefined),
      Document(YMap(<< <<Atoms, YSeq(<< Str(<<"Button">>), Null >>)>> >>),
               Undefined),
      YMap(<< <<Atoms, YSeq(<< Str(<<"Button">>) >>)>> >>),
      YMap(<< <<Atoms, YSeq(<< Str(<<"Button">>), Str(<<"Input">>) >>)>>,
              <<<<"excludes">>, YSeq(<< Str(<<"**", "Input.stories.tsx">>) >>)>> >>),
      YSeq(<< Str(<<"Button">>) >>),
      Str(<<"atoms">>),
      Null }

Documents ==
    { Document(c, x) : c \in ComponentsMaps, x \in ExcludesChoices }
    \cup OtherDocuments

ComponentTemplateText ==
    << Text("\n"), Text("export const "), Tag("componentName"), Text(" "),
       MetaTag("color"), Text("\n"), Text("\n") >>

StoryTemplateText ==
    << Text(" "), Text("title: "), Tag("categoryName"), Text("/"),
       Tag("componentName"), Text("\n") >>

TemplateFiles ==
    [p \in {DEFAULT_COMPONENT_TMPL_PATH, DEFAULT_STORY_TMPL_PATH} |->
        IF p = DEFAULT_COMPONENT_TMPL_PATH THEN ComponentTemplateText
                                           ELSE StoryTemplateText]

\* the content of a file that was there before the run
OldContent == << Text("old") >>

\* the directories a set of files needs
ParentDirs(paths) == UNION { Prefixes(Front(p)) : p \in paths }

\* the normalized candidate paths of a run with these arguments and document
CandidatesOf(a, doc) ==
    LET dir == OrDefault(get(parseArgs(a), "base-dir"), DEFAULT_BASE_DIR) IN
    IF loadConfigThrows(doc) THEN {}
    ELSE { Normalize(p) : p \in Range(CandidatePaths(loadConfig(doc, dir).components)) }

(***************************************************************************)
(* Specification                                                           *)
(***************************************************************************)
Init ==
    /\ args \in GenerateArgs \cup OtherArgs
    /\ \E doc \in Documents :
        /\ args \in OtherArgs => doc = Null
        /\ configs = [p \in {ConfigPath} |-> doc]
        /\ \E existing \in SUBSET CandidatesOf(args, doc), baseExists \in BOOLEAN :
            /\ files = [p \in DOMAIN TemplateFiles \cup existing |->
                          IF p \in existing THEN OldContent ELSE TemplateFiles[p]]
            /\ dirs = ParentDirs(DOMAIN TemplateFiles \cup existing)
                      \cup (IF baseExists
                            THEN Prefixes(OrDefault(get(parseArgs(args), "base-dir"),
                                                    DEFAULT_BASE_DIR))
                            ELSE {})
    /\ before = [dirs |-> dirs, files |-> files]
    /\ answers = <<>>
    /\ pc = "main"
    /\ options = <<>>
    /\ baseDir = <<>>
    /\ config = [components |-> <<>>, excludes |-> Undefined]
    /\ isForce = FALSE
    /\ newComponents = <<>>
    /\ k = 0
    /\ templates = [componentTemplate |-> <<>>, storyTemplate |-> <<>>]
    /\ g = 0
    /\ stdout = <<>>
    /\ stderr = <<>>
    /\ exitCode = -1
    /\ fsLog = <<>>

Next ==
    \/ Main
    \/ Execute
    \/ PlanStep
    \/ PlanEnd
    \/ Answer
    \/ MkBaseDir
    \/ ReadTemplates
    \/ Generate
    \/ GenerateEnd

Spec == Init /\ [][Next]_vars

(***************************************************************************)
(* Vocabulary of the properties                                            *)
(***************************************************************************)
\* --force is on the command line
ForceGiven == \E i \in DOMAIN args : args[i].dd /\ args[i].name = "force"

\* the lines of the plan: stdout[i] is about the i-th candidate path
PlanLines == { i \in DOMAIN stdout :
                 stdout[i].kind \in {"create", "overwrite", "skip", "excluded"} }

PlannedAs(kinds) == { i \in PlanLines : stdout[i].kind \in kinds }

Prompted == \E i \in DOMAIN stdout : stdout[i].kind = "prompt"

\* the paths materialization has written, the directories it has made
WrittenPaths == { fsLog[i].path : i \in { j \in DOMAIN fsLog : fsLog[j].op = "writeFileSync" } }

MadeDirs == { fsLog[i].path : i \in { j \in DOMAIN fsLog : fsLog[j].op = "mkdirSync" } }

ProbedPaths == { fsLog[i].path : i \in { j \in DOMAIN fsLog : fsLog[j].op = "existsSync" } }

DiskUnchanged == dirs = before.dirs /\ files = before.files

\* the run went through to "All files were created successfully."
Succeeded ==
    /\ pc = "exited"
    /\ stdout # <<>>
    /\ Last(stdout).kind = "All files were created successfully."

\* the answers that are "y" once trimmed and lower-cased
Affirmative == { << Text("y") >>, << Text(" "), Text("Y"), Text(" ") >> }

\* the i-th candidate path matches one of the patterns of the excludes list
MatchesAnExclusion(i) ==
    /\ config.excludes.t = "seq"
    /\ \E j \in DOMAIN config.excludes.v :
          GlobMatch(Relative(baseDir, CandidatePaths(config.components)[i]),
                    config.excludes.v[j].v)

(***************************************************************************)
(* C1: with force off, a file that was there before the run and was        *)
(* planned as "skip" has after the run the content it had before, also     *)
(* when the other file of its component is planned as "create".            *)
(***************************************************************************)
C1_SkippedFileKeepsContent ==
    (pc = "exited" /\ ~ForceGiven) =>
        \A i \in PlannedAs({"skip"}) :
            stdout[i].path \in DOMAIN before.files =>
                /\ stdout[i].path \in DOMAIN files
                /\ files[stdout[i].path] = before.files[stdout[i].path]

(***************************************************************************)
(* C2: a candidate path that matches an exclusion pattern is never written *)
(* by materialization, with force on or off, also when the other file of   *)
(* its component is planned as "create" or "overwrite".                    *)
(***************************************************************************)
C2_ExcludedPathNeverWritten ==
    \A i \in PlannedAs({"excluded"}) : stdout[i].path \notin WrittenPaths

(***************************************************************************)
(* C3: the question is put only after every candidate path has its         *)
(* disposition, and no directory or file is created before the question    *)
(* has been answered with yes; the base directory is no exception.         *)
(***************************************************************************)
C3_PromptAfterPlanBeforeWrites ==
    /\ \A i \in DOMAIN stdout :
          stdout[i].kind = "prompt" =>
              /\ k = 2 * Len(config.components)
              /\ PlanLines = 1..(i - 1)
              /\ i = k + 1
    /\ (~DiskUnchanged \/ MadeDirs # {} \/ WrittenPaths # {}) =>
          /\ Prompted
          /\ answers # <<>>
          /\ Last(answers) \in Affirmative

C3_Witness ==
    /\ pc = "generate"
    /\ g > 0
    /\ Normalize(baseDir) \notin before.dirs
    /\ Normalize(baseDir) \in dirs
    /\ Len(config.components) > 1

(***************************************************************************)
(* C4: when the question is answered with anything but yes, the run ends   *)
(* with the disk as it was: no directory and no file created or modified.  *)
(***************************************************************************)
C4_DeclineLeavesDiskAlone ==
    (answers # <<>> /\ Last(answers) \notin Affirmative) =>
        /\ pc = "exited"
        /\ DiskUnchanged
        /\ MadeDirs = {}
        /\ WrittenPaths = {}

C4_Witness ==
    /\ answers = << << Text("y"), Text("e"), Text("s") >> >>
    /\ pc = "exited"
    /\ Normalize(baseDir) \notin dirs
    /\ PlannedAs({"create"}) # {}

(***************************************************************************)
(* C5: when no candidate path is planned as "create" or "overwrite" the    *)
(* run never puts the question and leaves the disk untouched; the base     *)
(* directory is not created if it was not there.                           *)
(***************************************************************************)
C5_NothingToWriteNoPrompt ==
    (pc \notin {"main", "execute", "plan"} /\ PlannedAs({"create", "overwrite"}) = {}) =>
        /\ ~Prompted
        /\ answers = <<>>
        /\ pc = "exited"
        /\ DiskUnchanged
        /\ MadeDirs = {}

C5_Witness ==
    /\ pc = "exited"
    /\ exitCode = 0
    /\ PlannedAs({"excluded"}) # {}
    /\ PlannedAs({"create", "overwrite"}) = {}
    /\ Normalize(baseDir) \notin dirs

(***************************************************************************)
(* C6: a candidate path that matches no exclusion pattern is planned as    *)
(* "create" if the file is not there, "overwrite" if it is there and force *)
(* is on, "skip" if it is there and force is off; with force off nothing   *)
(* is planned as "overwrite".                                              *)
(***************************************************************************)
C6_DispositionByExistenceAndForce ==
    /\ \A i \in 1..k :
          ~MatchesAnExclusion(i) =>
              /\ i \in DOMAIN stdout
              /\ stdout[i].path = Normalize(CandidatePaths(config.components)[i])
              /\ stdout[i].kind =
                    IF stdout[i].path \in DOMAIN before.files
                    THEN (IF ForceGiven THEN "overwrite" ELSE "skip")
                    ELSE "create"
    /\ ~ForceGiven => PlannedAs({"overwrite"}) = {}

C6_Witness ==
    /\ pc = "exited"
    /\ ForceGiven
    /\ PlannedAs({"overwrite"}) # {}
    /\ PlannedAs({"create"}) # {}
    /\ PlannedAs({"excluded"}) # {}

(***************************************************************************)
(* C7: after a run that was confirmed and went through, every candidate    *)
(* path planned as "create" or "overwrite" is on disk with the rendering   *)
(* of its own template: the component template for a component path, the   *)
(* story template for a story path.                                        *)
(***************************************************************************)
C7_PlannedFilesHoldOwnTemplate ==
    Succeeded =>
        \A i \in PlannedAs({"create", "overwrite"}) :
            /\ stdout[i].path \in DOMAIN files
            /\ \E j \in DOMAIN config.components :
                  LET c == config.components[j] IN
                  \/ /\ stdout[i].path = Normalize(c.componentPath)
                     /\ files[stdout[i].path] =
                           FileContent(before.files[DEFAULT_COMPONENT_TMPL_PATH], c)
                  \/ /\ stdout[i].path = Normalize(c.storyPath)
                     /\ files[stdout[i].path] =
                           FileContent(before.files[DEFAULT_STORY_TMPL_PATH], c)

C7_Witness ==
    /\ Succeeded
    /\ \E i \in PlannedAs({"create"}) :
          /\ stdout[i].path \notin DOMAIN before.files
          /\ stdout[i].path \in DOMAIN files
          /\ Text("red") \in Range(files[stdout[i].path])
    /\ PlannedAs({"skip"}) = {}

(***************************************************************************)
(* C8: the number of files the question announces is the number of         *)
(* candidate paths planned as "create" or "overwrite", and it is the       *)
(* number of distinct files materialization writes once the user has said  *)
(* yes.  Stated for the runs whose candidate paths are all different.      *)
(***************************************************************************)
CandidatePathsDiffer ==
    \A i, j \in PlanLines : stdout[i].path = stdout[j].path => i = j

C8_PromptCountIsFilesWritten ==
    (Succeeded /\ CandidatePathsDiffer) =>
        \A i \in DOMAIN stdout :
            stdout[i].kind = "prompt" =>
                /\ stdout[i].n = Cardinality(PlannedAs({"create", "overwrite"}))
                /\ stdout[i].n = Cardinality(WrittenPaths)

(***************************************************************************)
(* C9: a candidate path that matches at least one exclusion pattern is     *)
(* planned as "excluded" whether or not the file is there and whether or   *)
(* not force is on, and the plan never asks the disk whether it is there.  *)
(***************************************************************************)
C9_ExclusionComesFirst ==
    \A i \in 1..k :
        MatchesAnExclusion(i) =>
            /\ i \in DOMAIN stdout
            /\ stdout[i] = PathLine("excluded",
                                    Normalize(CandidatePaths(config.components)[i]))
            /\ stdout[i].path \notin ProbedPaths

C9_Witness ==
    /\ pc = "exited"
    /\ ForceGiven
    /\ \E i \in PlannedAs({"excluded"}) : stdout[i].path \in DOMAIN before.files
    /\ PlannedAs({"overwrite"}) # {}

(***************************************************************************)
(* C10: a config with a category entry that is neither a string nor a      *)
(* mapping (a number, a boolean, null) is rejected: the run ends with an   *)
(* error, the entry is not dropped silently and no plan is made.           *)
(***************************************************************************)
HasMalformedEntry ==
    LET doc == configs[ConfigPath]
        cats == Property(doc, <<"components">>)
    IN  /\ cats.t = "map"
        /\ \E i \in DOMAIN cats.v :
              /\ cats.v[i][2].t = "seq"
              /\ \E j \in DOMAIN cats.v[i][2].v :
                    cats.v[i][2].v[j].t \notin {"str", "map"}

C10_MalformedEntryRejected ==
    (HasMalformedEntry /\ pc \notin {"main", "execute"}) =>
        /\ pc = "exited"
        /\ exitCode = 1
        /\ PlanLines = {}


(***************************************************************************)
(* Vocabulary of the claims about the config document and the command line *)
(***************************************************************************)
\* the document in the config file
TheDocument == configs[ConfigPath]

\* the config file has been looked for, found and handed to the parser
ConfigWasRead == ConfigPath \in { Normalize(p) : p \in ProbedPaths }

\* what stderr shows when an exception reaches the top of the process
\* instead of a message of handleError
UncaughtErrors == { "TypeError", "ENOENT", "EACCES" }

\* the run ended by handleError: a message on stderr, exit status 1
EndedByHandleError ==
    /\ pc = "exited"
    /\ exitCode = 1
    /\ stderr # <<>>
    /\ Last(stderr) \notin UncaughtErrors

\* no directory made, no file written, nothing on disk differs
NoFsChange == MadeDirs = {} /\ WrittenPaths = {} /\ DiskUnchanged

(***************************************************************************)
(* C11: a config document whose top level is not a mapping (a scalar, a    *)
(* sequence, null) ends the run with a configuration format error reported *)
(* by the error path (its message, exit status 1) before any target is     *)
(* planned, any prompt is shown and anything on disk changes.              *)
(***************************************************************************)
C11_NonMappingIsFormatError ==
    (TheDocument.t # "map" /\ ConfigWasRead) =>
        /\ EndedByHandleError
        /\ PlanLines = {}
        /\ ~Prompted
        /\ NoFsChange

(***************************************************************************)
(* C12: a document whose top-level keys are category names, each mapped to *)
(* a sequence of entries, with an optional top-level excludes, is loaded   *)
(* into one target per entry of each category; excludes is the exclusion   *)
(* list, never a category; without it no candidate is planned "excluded".  *)
(***************************************************************************)
\* the category/entries pairs of a document with the categories at the top
TopLevelCategories(doc) == SelectSeq(doc.v, LAMBDA pair : pair[1] # <<"excludes">>)

CategoriesAtTopLevel(doc) ==
    /\ doc.t = "map"
    /\ TopLevelCategories(doc) # <<>>
    /\ \A i \in DOMAIN TopLevelCategories(doc) :
          LET pair == TopLevelCategories(doc)[i] IN
          /\ pair[1] # <<"components">>
          /\ pair[2].t = "seq"
          /\ \A j \in DOMAIN pair[2].v : pair[2].v[j].t = "str"

\* the category/name pairs of the entries, in document order
TopLevelTargets(doc) ==
    Flatten([i \in DOMAIN TopLevelCategories(doc) |->
               LET pair == TopLevelCategories(doc)[i] IN
               [j \in DOMAIN pair[2].v |-> << pair[1], pair[2].v[j].v >>]])

C12_TopLevelCategoriesLoad ==
    (CategoriesAtTopLevel(TheDocument) /\ ConfigWasRead) =>
        /\ stderr = <<>>
        /\ Len(config.components) = Len(TopLevelTargets(TheDocument))
        /\ \A i \in DOMAIN config.components :
              /\ config.components[i].categoryName = TopLevelTargets(TheDocument)[i][1]
              /\ config.components[i].componentName = TopLevelTargets(TheDocument)[i][2]
        /\ config.excludes = Property(TheDocument, <<"excludes">>)
        /\ (Property(TheDocument, <<"excludes">>) = Undefined
              => PlannedAs({"excluded"}) = {})

(***************************************************************************)
(* The loader on its own: command line fixed, documents with one category  *)
(* of arbitrary entries and one entry with an arbitrary metadata list      *)
(***************************************************************************)
\* the mappings a metadata list is made of
MetaItems ==
    { YMap(<< << <<"color">>, Str(<<"blue">>) >> >>),
      YMap(<< << <<"color">>, Str(<<"red">>) >> >>),
      YMap(<< << <<"size">>, Str(<<"large">>) >> >>),
      YMap(<< << <<"size">>, Str(<<"small">>) >>, << <<"color">>, Str(<<"green">>) >> >>) }

\* entries of a category: names, a number, nothing
ParseEntries == BareEntries \cup { Num(<<"1">>), Null }

ParseDocument(entries, metadataList) ==
    Document(YMap(<< << Atoms, YSeq(entries) >>,
                     << Molecules,
                        YSeq(<< YMap(<< << <<"Button">>, YSeq(metadataList) >> >>) >>) >> >>),
             Undefined)

ParseDocuments ==
    { ParseDocument(es, ml) : es \in SeqsUpTo(ParseEntries, MaxEntries),
                              ml \in SeqsUpTo(MetaItems, MaxMeta) }

InitParse ==
    /\ args = << Node, Script, ConfigArg >>
    /\ \E doc \in ParseDocuments : configs = [p \in {ConfigPath} |-> doc]
    /\ files = TemplateFiles
    /\ dirs = ParentDirs(DOMAIN TemplateFiles)
    /\ before = [dirs |-> dirs, files |-> files]
    /\ answers = <<>>
    /\ pc = "main"
    /\ options = <<>>
    /\ baseDir = <<>>
    /\ config = [components |-> <<>>, excludes |-> Undefined]
    /\ isForce = FALSE
    /\ newComponents = <<>>
    /\ k = 0
    /\ templates = [componentTemplate |-> <<>>, storyTemplate |-> <<>>]
    /\ g = 0
    /\ stdout = <<>>
    /\ stderr = <<>>
    /\ exitCode = -1
    /\ fsLog = <<>>

NextParse ==
    \/ Main
    \/ Execute

SpecParse == InitParse /\ [][NextParse]_vars

\* the config has been loaded without an exception
Loaded == pc = "plan"

\* the entries of atoms and the metadata list of molecules' Button in the
\* document of the config file
TheEntries == Property(Property(TheDocument, <<"components">>), Atoms).v

TheMetadataList ==
    Property(Property(Property(TheDocument, <<"components">>), Molecules).v[1],
             <<"Button">>).v

(***************************************************************************)
(* C13: the meta of an entry with a metadata list maps every key of the    *)
(* list to the value of the last mapping of the list that carries it; a    *)
(* key that occurs once keeps its value; meta has no other keys.           *)
(***************************************************************************)
CarriesKey(item, key) == \E i \in DOMAIN item.v : item.v[i][1] = key

CarriedKeys(list) ==
    UNION { { list[i].v[j][1] : j \in DOMAIN list[i].v } : i \in DOMAIN list }

LastCarrying(list, key) ==
    CHOOSE i \in DOMAIN list :
        /\ CarriesKey(list[i], key)
        /\ \A j \in DOMAIN list : j > i => ~CarriesKey(list[j], key)

C13_LastMetadataValueWins ==
    Loaded =>
        LET meta == Last(config.components).meta IN
        /\ DOMAIN meta = CarriedKeys(TheMetadataList)
        /\ \A key \in CarriedKeys(TheMetadataList) :
              meta[key] = Property(TheMetadataList[LastCarrying(TheMetadataList, key)], key)

\* loaded: color blue, then color red
C13_Witness ==
    /\ Loaded
    /\ TheMetadataList = << YMap(<< << <<"color">>, Str(<<"blue">>) >> >>),
                            YMap(<< << <<"color">>, Str(<<"red">>) >> >>) >>
    /\ Last(config.components).meta[<<"color">>] = Str(<<"red">>)

(***************************************************************************)
(* C14: an entry that is a bare name gives exactly one target, with that   *)
(* name, the category it is listed under and an empty meta.                *)
(***************************************************************************)
\* the entries before the j-th that give a target
BareBefore(j) == { i \in 1..(j - 1) : TheEntries[i].t = "str" }

C14_BareNameGivesOneTarget ==
    Loaded =>
        /\ Len(config.components) = Cardinality(BareBefore(Len(TheEntries) + 1)) + 1
        /\ \A j \in DOMAIN TheEntries :
              TheEntries[j].t = "str" =>
                  LET c == config.components[Cardinality(BareBefore(j)) + 1] IN
                  /\ c.componentName = TheEntries[j].v
                  /\ c.categoryName = Atoms
                  /\ DOMAIN c.meta = {}

C14_Witness ==
    /\ Loaded
    /\ TheEntries = << Str(<<"Input">>), Str(<<"Button">>) >>
    /\ config.components[1].componentName = <<"Input">>
    /\ config.components[1].categoryName = Atoms
    /\ config.components[2].componentName = <<"Button">>

(***************************************************************************)
(* The generate command on every document, with and without --force and    *)
(* --base-dir, with no exclusion list or the longest one                   *)
(***************************************************************************)
InitLayout ==
    /\ Init
    /\ args \in GenerateArgs
    /\ \/ configs[ConfigPath] \in OtherDocuments
       \/ \E c \in ComponentsMaps :
             configs[ConfigPath]
                \in { Document(c, Undefined),
                      Document(c, YSeq(<< Str(<<"molecules", "**">>),
                                          Str(<<"*", "Button", "*">>) >>)) }

SpecLayout == InitLayout /\ [][Next]_vars

(***************************************************************************)
(* C15: the planned candidate paths are, in this order: the categories in  *)
(* document order, in each category its entries in document order, for     *)
(* each target its primary path and then its secondary path; the plan has  *)
(* exactly two lines for every target.                                     *)
(***************************************************************************)
\* the config was loaded and no error has ended the run since
LoadedFine == ConfigWasRead /\ stderr = <<>>

\* the category/name pairs an entry stands for
EntryTargets(category, entry) ==
    CASE entry.t = "str" -> << << category, entry.v >> >>
      [] entry.t = "map" -> [i \in DOMAIN entry.v |-> << category, entry.v[i][1] >>]
      [] OTHER -> <<>>

\* the category/name pairs of a document, in document order
DocumentTargets(doc) ==
    LET cats == Property(doc, <<"components">>).v IN
    Flatten([i \in DOMAIN cats |->
               Flatten([j \in DOMAIN cats[i][2].v |->
                          EntryTargets(cats[i][1], cats[i][2].v[j])])])

\* the directory and the two files of a target, as the documentation
\* lays them out: <base dir>/<category>/<name>/<name>.tsx, .stories.tsx
TargetDir(base, target) == Normalize(base) \o target[1] \o target[2]

PrimaryPath(base, target) == TargetDir(base, target) \o Concat(target[2], <<".tsx">>)

SecondaryPath(base, target) ==
    TargetDir(base, target) \o Concat(target[2], <<".stories.tsx">>)

ExpectedPlanPaths(base, targets) ==
    Flatten([i \in DOMAIN targets |->
               << PrimaryPath(base, targets[i]), SecondaryPath(base, targets[i]) >>])

PathsOf(c) == { Normalize(c.componentPath), Normalize(c.storyPath) }

\* the config as loadConfigFromFile has just returned it (nothing assigns
\* config or baseDir afterwards)
JustLoaded == pc = "plan" /\ k = 0

IsTrimmedFormOf(core, txt) ==
    /\ core # <<>> => Head(core) \notin Whitespace /\ Last(core) \notin Whitespace
    /\ \E a, b \in 0..Len(txt) :
          /\ a + b <= Len(txt)
          /\ core = SubSeq(txt, a + 1, Len(txt) - b)
          /\ \A i \in 1..a : txt[i] \in Whitespace
          /\ \A i \in (Len(txt) - b + 1)..Len(txt) : txt[i] \in Whitespace

C17_WrittenTextTrimmedPlusNewline ==
    \A p \in WrittenPaths :
        /\ files[p] # <<>>
        /\ Last(files[p]) = Text("\n")
        /\ \E c \in Range(newComponents),
              t \in { templates.componentTemplate, templates.storyTemplate } :
              IsTrimmedFormOf(Front(files[p]), Render(t, c))

\* the component template starts with a newline and ends, for a component
\* without a colour, with a space and two newlines
C17_Witness ==
    /\ Succeeded
    /\ <<"src", "components", "atoms", "Button", "Button.tsx">> \in WrittenPaths
    /\ files[<<"src", "components", "atoms", "Button", "Button.tsx">>]
          = << Text("export const "), Text("Button"), Text("\n") >>

(***************************************************************************)
(* Materialization with a file system call that fails                      *)
(***************************************************************************)
\* the call of generate(component) that throws: mkdirSync, the first
\* writeFileSync or the second one
FailingCalls == { "mkdirSync", "componentPath", "storyPath" }

\* generate(component) up to the call that throws; a call that throws
\* leaves the disk as it was
GenerateThrows ==
    /\ pc = "generate"
    /\ g < Len(newComponents)
    /\ \E call \in FailingCalls :
        LET component == newComponents[g + 1]
            there == existsSync(component.componentDir)
            probe == << FsCall("existsSync", component.componentDir) >>
            made == IF there THEN <<>>
                    ELSE << FsCall("mkdirSync", component.componentDir) >>
        IN
        CASE call = "mkdirSync" ->
                /\ ~there
                /\ UNCHANGED << dirs, files >>
                /\ fsLog' = fsLog \o probe
                            \o << FsCall("mkdirSync throws", component.componentDir) >>
          [] call = "componentPath" ->
                /\ dirs' = IF there THEN dirs ELSE mkdirSync(dirs, component.componentDir)
                /\ UNCHANGED files
                /\ fsLog' = fsLog \o probe \o made
                            \o << FsCall("writeFileSync throws", component.componentPath) >>
          [] call = "storyPath" ->
                /\ dirs' = IF there THEN dirs ELSE mkdirSync(dirs, component.componentDir)
                /\ files' = createFile(files, component.componentPath,
                                       templates.componentTemplate, component)
                /\ fsLog' = fsLog \o probe \o made
                            \o << FsCall("writeFileSync", component.componentPath),
                                  FsCall("writeFileSync throws", component.storyPath) >>
    /\ UNCHANGED << args, before, configs, answers, options, baseDir, config,
                    isForce, newComponents, k, templates, stdout >>

\* a loop that catches the exception and goes on with the next component
CaughtAndSkipped(error) ==
    /\ stderr' = Append(stderr, error)
    /\ g' = g + 1
    /\ UNCHANGED << pc, exitCode >>

GenerateFailsAndGoesOn == GenerateThrows /\ CaughtAndSkipped("EACCES")

\* nothing catches the exception: it ends forEach, execute and the process
UncaughtInLoop(error) == Uncaught(error) /\ UNCHANGED g

GenerateFails == GenerateThrows /\ UncaughtInLoop("EACCES")

InitFail ==
    /\ Init
    /\ args \in { << Node, Script, ConfigArg >>, << Node, Script, ConfigArg, Opt("force") >> }
    /\ configs[ConfigPath] \in { Document(c, Undefined) : c \in ComponentsMaps }

NextFail ==
    \/ Next
    \/ GenerateFails

SpecFail == InitFail /\ [][NextFail]_vars

(***************************************************************************)
(* C18: when a write fails partway through materialization the run aborts: *)
(* no target later in the write order is materialized, the failed write is *)
(* not tried again, and every file written before the failure stays on     *)
(* disk with the content written (no rollback).                            *)
(***************************************************************************)
\* the calls that threw, by their place in the log
FailedCalls ==
    { i \in DOMAIN fsLog : fsLog[i].op \in {"mkdirSync throws", "writeFileSync throws"} }

\* the paths of the writes that went through, in the order they were made
WrittenInOrder ==
    LET done == SelectSeq(fsLog, LAMBDA call : call.op = "writeFileSync") IN
    [i \in DOMAIN done |-> done[i].path]

\* the paths materialization writes when nothing fails, in order
WriteOrder ==
    Flatten([i \in DOMAIN newComponents |->
               << Normalize(newComponents[i].componentPath),
                  Normalize(newComponents[i].storyPath) >>])

\* p holds what materialization writes there for one of the components
HoldsWrittenContent(p) ==
    /\ p \in DOMAIN files
    /\ \E i \in DOMAIN newComponents :
          LET c == newComponents[i] IN
          \/ /\ p = Normalize(c.componentPath)
             /\ files[p] = FileContent(templates.componentTemplate, c)
          \/ /\ p = Normalize(c.storyPath)
             /\ files[p] = FileContent(templates.storyTemplate, c)

C18_FailedWriteAbortsWithoutRollback ==
    FailedCalls # {} =>
        /\ pc = "exited"
        /\ exitCode = 1
        /\ FailedCalls = { Len(fsLog) }
        /\ Len(WrittenInOrder) < Len(WriteOrder)
        /\ WrittenInOrder = SubSeq(WriteOrder, 1, Len(WrittenInOrder))
        /\ \A p \in WrittenPaths : HoldsWrittenContent(p)
        /\ MadeDirs \subseteq dirs
        /\ \A p \in DOMAIN before.files : p \in DOMAIN files

\* the second component's stories file fails: three files were written
\* before and are still there
C18_Witness ==
    /\ FailedCalls # {}
    /\ fsLog[Len(fsLog)].op = "writeFileSync throws"
    /\ g = 1
    /\ Len(WrittenInOrder) = 3
    /\ \A p \in WrittenPaths : HoldsWrittenContent(p)

(***************************************************************************)
(* C19: an unknown command name, the generate command without a value for  *)
(* --config, and a --config path at which there is no file each end the    *)
(* run with an error message and a non-zero exit status, without a prompt  *)
(* and without any change on disk.                                         *)
(***************************************************************************)
\* the words of the command line: the arguments after the script that do
\* not start with "--"
CommandWords == SelectSeq(SubSeq(args, 3, Len(args)), LAMBDA a : ~a.dd)

HelpAsked ==
    \/ CommandWords # <<>> /\ CommandWords[1].name = "help"
    \/ \E i \in DOMAIN args : args[i].dd /\ args[i].name = "help"

UnknownCommandGiven ==
    /\ CommandWords # <<>>
    /\ CommandWords[1].name \notin {"generate", "help"}

\* the --config arguments that carry a value
ConfigValues == { i \in DOMAIN args :
                    args[i].dd /\ args[i].name = "config" /\ args[i].vals # <<>> }

GenerateWithoutConfig ==
    /\ ~HelpAsked
    /\ ~UnknownCommandGiven
    /\ ConfigValues = {}

ConfigFileMissing ==
    /\ ~HelpAsked
    /\ ~UnknownCommandGiven
    /\ ConfigValues # {}
    /\ \A i \in ConfigValues : Normalize(args[i].vals[1]) \notin DOMAIN configs

C19_BadInvocationIsAnError ==
    (UnknownCommandGiven \/ GenerateWithoutConfig \/ ConfigFileMissing) =>
        /\ pc \in {"main", "execute", "exited"}
        /\ pc = "exited" => EndedByHandleError
        /\ stdout = <<>>
        /\ ~Prompted
        /\ NoFsChange

\* --config=missing.yaml: the run has ended in "Configuration file not found"
C19_Witness ==
    /\ ConfigFileMissing
    /\ pc = "exited"
    /\ exitCode = 1
    /\ stderr = << "Configuration file not found" >>
    /\ NoFsChange

(***************************************************************************)
(* C20: the help command and the --help option print the usage text and    *)
(* end the run with exit status 0, without asking for --config, reading    *)
(* the config file, prompting or changing anything on disk.                *)
(***************************************************************************)
C20_HelpPrintsUsage ==
    (HelpAsked /\ pc # "main") =>
        /\ pc = "exited"
        /\ exitCode = 0
        /\ stderr = <<>>
        /\ stdout = << Line("usage") >>
        /\ fsLog = <<>>
        /\ NoFsChange

(***************************************************************************)
(* The command line on its own: every list of up to MaxArgs arguments, one *)
(* document, its files either all there or all missing                     *)
(***************************************************************************)
\* the arguments: command words, options with and without a value, a bare
\* "--"
CliTokens ==
    { Word("generate"), Word("help"), Word("delete"),
      ConfigArg, OptVal("config", MissingPath),
      Opt("force"), OptVal("force", <<"false">>),
      OptVal("base-dir", <<"out">>),
      Opt("verbose"), Opt("help"), Opt("") }

CliArgs == { << Node, Script >> \o rest : rest \in SeqsUpTo(CliTokens, MaxArgs) }

CliDocument == Document(YMap(<< << Atoms, YSeq(<< Str(<<"Button">>) >>) >> >>), Undefined)

InitCli ==
    /\ args \in CliArgs
    /\ configs = [p \in {ConfigPath} |-> CliDocument]
    /\ \E existing \in { {}, CandidatesOf(args, CliDocument) } :
          /\ files = [p \in DOMAIN TemplateFiles \cup existing |->
                        IF p \in existing THEN OldContent ELSE TemplateFiles[p]]
          /\ dirs = ParentDirs(DOMAIN TemplateFiles \cup existing)
    /\ before = [dirs |-> dirs, files |-> files]
    /\ answers = <<>>
    /\ pc = "main"
    /\ options = <<>>
    /\ baseDir = <<>>
    /\ config = [components |-> <<>>, excludes |-> Undefined]
    /\ isForce = FALSE
    /\ newComponents = <<>>
    /\ k = 0
    /\ templates = [componentTemplate |-> <<>>, storyTemplate |-> <<>>]
    /\ g = 0
    /\ stdout = <<>>
    /\ stderr = <<>>
    /\ exitCode = -1
    /\ fsLog = <<>>

SpecCli == InitCli /\ [][Next]_vars

(***************************************************************************)
(* C21: a command line with a "--" option whose key is not config,         *)
(* base-dir, force, component-template or story-template ends with the     *)
(* unknown-option error and a non-zero exit status before the command is   *)
(* selected, the config is read and anything on disk changes.              *)
(***************************************************************************)
\* the arguments that are options: "--" followed by a key
OptionArgs == { i \in DOMAIN args : args[i].dd /\ args[i].name # "" }

UnknownOptionGiven ==
    \E i \in OptionArgs :
        args[i].name \notin {"config", "base-dir", "force",
                             "component-template", "story-template"}

C21_UnknownOptionRejectedFirst ==
    UnknownOptionGiven =>
        /\ pc \in {"main", "exited"}
        /\ pc = "exited" => /\ exitCode = 1
                            /\ stderr = << "Unknown options provided" >>
        /\ stdout = <<>>
        /\ fsLog = <<>>
        /\ NoFsChange

\* "help --verbose": the option is rejected, the usage text is not printed
C21_Witness ==
    /\ args = << Node, Script, Word("help"), Opt("verbose") >>
    /\ pc = "exited"
    /\ exitCode = 1
    /\ stderr = << "Unknown options provided" >>
    /\ stdout = <<>>

(***************************************************************************)
(* C26: force is on exactly when the command line has an argument with the *)
(* key --force, whatever follows its "=" (--force=false turns it on too);  *)
(* of several arguments with the same key the value of the last one is     *)
(* the one stored.                                                         *)
(***************************************************************************)
\* the last argument with this key
LastWithKey(key) ==
    CHOOSE i \in OptionArgs :
        /\ args[i].name = key
        /\ \A j \in OptionArgs : args[j].name = key => j <= i

\* the text after the first "=" of an argument, if there is one
ValueGiven(i) == IF args[i].vals = <<>> THEN Undefined ELSE Str(args[i].vals[1])

C26_ForceByPresenceLastValueStored ==
    /\ pc # "main" =>
          /\ \A i \in OptionArgs :
                get(options, args[i].name) = ValueGiven(LastWithKey(args[i].name))
          /\ \A i \in DOMAIN options : \E j \in OptionArgs : args[j].name = options[i][1]
    /\ pc \notin {"main", "execute", "exited"} => (isForce <=> ForceGiven)
    /\ \A i \in PlanLines :
          /\ stdout[i].kind = "overwrite" => ForceGiven
          /\ stdout[i].kind = "skip" => ~ForceGiven

\* --force=false: the existing files are planned as "overwrite"
C26_Witness ==
    /\ args = << Node, Script, ConfigArg, OptVal("force", <<"false">>) >>
    /\ pc = "prompt"
    /\ isForce
    /\ PlannedAs({"overwrite"}) # {}

(***************************************************************************)
(* C22: computing the plan writes nothing (the disk after the plan is the  *)
(* disk before it), and computing the plan again from the same targets,    *)
(* existing paths, exclusions and force flag gives the same sequence of    *)
(* dispositions.                                                           *)
(***************************************************************************)
\* the dispositions the run has printed, in order
PrintedPlan == [i \in 1..k |-> stdout[i].kind]

\* the plan computed from the disk as it is now
PlanComputedNow ==
    PlanDispositions(config.components, config.excludes, baseDir,
              dirs \cup DOMAIN files, isForce)

\* `before` is the disk at the start of the run, and nothing before the
\* plan loop changes it
C22_PlanWritesNothingAndRepeats ==
    pc \in {"plan", "prompt"} =>
        /\ DiskUnchanged
        /\ MadeDirs = {}
        /\ WrittenPaths = {}
        /\ PrintedPlan = SubSeq(PlanComputedNow, 1, k)

\* the plan of a run that finds one file of two components
C22_Witness ==
    /\ pc = "prompt"
    /\ k = 4
    /\ PlannedAs({"skip"}) # {}
    /\ PlannedAs({"create"}) # {}
    /\ PlannedAs({"excluded"}) # {}
    /\ PrintedPlan = PlanComputedNow
    /\ DiskUnchanged

(***************************************************************************)
(* The question on its own: one document, every answer of up to            *)
(* MaxAnswerLen characters                                                 *)
(***************************************************************************)
AnswerChars == { Text("y"), Text("Y"), Text("n"), Text("e"), Text(" "), Text("\t") }

TypedAnswers == SeqsUpTo(AnswerChars, MaxAnswerLen)

AnswerAny == AnswerFrom(TypedAnswers)

InitAnswer ==
    /\ InitCli
    /\ args \in { << Node, Script, ConfigArg >>, << Node, Script, ConfigArg, Opt("force") >> }

NextAnswer ==
    \/ Main
    \/ Execute
    \/ PlanStep
    \/ PlanEnd
    \/ AnswerAny
    \/ MkBaseDir
    \/ ReadTemplates
    \/ Generate
    \/ GenerateEnd

SpecAnswer == InitAnswer /\ [][NextAnswer]_vars

(***************************************************************************)
(* C23: the answer counts as a yes exactly when it is the single letter    *)
(* "y" once surrounding whitespace is removed and it is lower-cased; any   *)
(* other answer, the empty one and "yes" included, is a decline and        *)
(* nothing is written.                                                     *)
(***************************************************************************)
\* one "y" or "Y" with nothing but whitespace around it
IsLetterY(answer) ==
    \E i \in DOMAIN answer :
        /\ answer[i] \in { Text("y"), Text("Y") }
        /\ \A j \in DOMAIN answer : j # i => answer[j] \in { Text(" "), Text("\t") }

Canceled == \E i \in DOMAIN stdout : stdout[i].kind = "File creation canceled."

C23_YesIsTheLetterY ==
    answers # <<>> =>
        IF IsLetterY(answers[1])
        THEN /\ ~Canceled
             /\ pc \in {"mkbase", "templates", "generate", "exited"}
             /\ pc = "exited" => Succeeded /\ WrittenPaths # {}
        ELSE /\ Canceled
             /\ pc = "exited"
             /\ exitCode = 0
             /\ NoFsChange

\* " Y" and a tab: the files were written
C23_Witness ==
    /\ answers = << << Text(" "), Text("Y"), Text("\t") >> >>
    /\ Succeeded
    /\ WrittenPaths # {}

(***************************************************************************)
(* The same command line run a second time on the disk the first run left  *)
(***************************************************************************)
\* what the terminal shows between the two runs
SecondInvocation == Line("$ atomic-gen")

\* after a run that was confirmed and went through, the command is given
\* again: a new process on the same disk, the terminal keeps its lines
Rerun ==
    /\ pc = "exited"
    /\ exitCode = 0
    /\ stdout # <<>>
    /\ Last(stdout) = Line("All files were created successfully.")
    /\ \A i \in DOMAIN stdout : stdout[i] # SecondInvocation
    /\ stdout' = Append(stdout, SecondInvocation)
    /\ before' = [dirs |-> dirs, files |-> files]
    /\ answers' = <<>>
    /\ pc' = "main"
    /\ options' = <<>>
    /\ baseDir' = <<>>
    /\ config' = [components |-> <<>>, excludes |-> Undefined]
    /\ isForce' = FALSE
    /\ newComponents' = <<>>
    /\ k' = 0
    /\ templates' = [componentTemplate |-> <<>>, storyTemplate |-> <<>>]
    /\ g' = 0
    /\ stderr' = <<>>
    /\ exitCode' = -1
    /\ fsLog' = <<>>
    /\ UNCHANGED << args, configs, dirs, files >>

InitRerun ==
    /\ InitLayout
    /\ \A i \in DOMAIN args : ~(args[i].dd /\ args[i].name = "force")

NextRerun ==
    \/ Next
    \/ Rerun

SpecRerun == InitRerun /\ [][NextRerun]_vars

(***************************************************************************)
(* C24: after a run without --force that was confirmed and went through    *)
(* without error, a second run with the same config, base directory and    *)
(* exclusions plans no "create" and no "overwrite", puts no question and   *)
(* leaves the disk as it found it.                                         *)
(***************************************************************************)
\* the lines the second run has printed
SecondRunLines ==
    { i \in DOMAIN stdout :
        \E r \in 1..(i - 1) : stdout[r] = SecondInvocation }

InSecondRun == \E r \in DOMAIN stdout : stdout[r] = SecondInvocation

C24_SecondRunFindsNothingToDo ==
    InSecondRun =>
        /\ \A i \in SecondRunLines :
              stdout[i].kind \notin {"create", "overwrite", "prompt"}
        /\ pc \in {"main", "execute", "plan", "exited"}
        /\ pc = "exited" => /\ exitCode = 0
                            /\ Last(stdout) = Line("No files to create")
        /\ NoFsChange

\* the second run has ended: it skipped a file and left an excluded one out
C24_Witness ==
    /\ InSecondRun
    /\ pc = "exited"
    /\ Last(stdout) = Line("No files to create")
    /\ \E i \in SecondRunLines : stdout[i].kind = "skip"
    /\ \E i \in SecondRunLines : stdout[i].kind = "excluded"
    /\ NoFsChange

(***************************************************************************)
(* C25: the write list has one entry for every candidate file planned as   *)
(* "create" or "overwrite", so a component with both files planned is in   *)
(* it twice and is materialized twice; the disk after the confirmed run is *)
(* the one that materializing each such component once, in the order of    *)
(* first appearance, gives.                                                *)
(***************************************************************************)
\* the plan lines that say "create" or "overwrite", in order
WriteLines ==
    SelectSeq([i \in 1..k |-> i],
              LAMBDA i : stdout[i].kind \in {"create", "overwrite"})

\* the component the i-th plan line is about
ComponentOfLine(i) == config.components[(i + 1) \div 2]

\* the components with a file planned as "create" or "overwrite", each once
WrittenOnce ==
    LET numbers == SelectSeq([c \in DOMAIN config.components |-> c],
                             LAMBDA c : \/ stdout[2 * c - 1].kind \in {"create", "overwrite"}
                                        \/ stdout[2 * c].kind \in {"create", "overwrite"})
    IN  [j \in DOMAIN numbers |-> config.components[numbers[j]]]

\* the files after generate(component) for each component of a list in turn
RECURSIVE MaterializeAll(_, _)
MaterializeAll(fls, components) ==
    IF components = <<>> THEN fls
    ELSE MaterializeAll(generate(fls, Head(components), templates.componentTemplate,
                                 templates.storyTemplate),
                        Tail(components))

\* the directories after the base directory and those of a list of
\* components have been made
DirsWith(components) ==
    before.dirs \cup Prefixes(Normalize(baseDir))
        \cup UNION { Prefixes(Normalize(components[i].componentDir)) :
                        i \in DOMAIN components }

C25_WriteListPerFileSameDiskAsOnce ==
    /\ (LoadedFine /\ pc # "execute") =>
          newComponents = [j \in DOMAIN WriteLines |-> ComponentOfLine(WriteLines[j])]
    /\ Succeeded =>
          /\ g = Len(newComponents)
          /\ Cardinality({ i \in DOMAIN fsLog : fsLog[i].op = "writeFileSync" })
                = 2 * Len(newComponents)
          /\ files = MaterializeAll(before.files, WrittenOnce)
          /\ dirs = DirsWith(WrittenOnce)

\* Button with both files planned: twice in the write list, written twice
C25_Witness ==
    /\ Succeeded
    /\ Len(newComponents) = 2
    /\ newComponents[1] = newComponents[2]
    /\ Len(WrittenOnce) = 1
    /\ Cardinality({ i \in DOMAIN fsLog : fsLog[i].op = "writeFileSync" }) = 4
    /\ files = MaterializeAll(before.files, WrittenOnce)
====
